---------------------------- MODULE Spec2Model ----------------------------
(***************************************************************************)
(* Appointment service (src/app.py, src/models.py): the appointment store, *)
(* the five lifecycle handlers (book, reschedule, cancel, complete,        *)
(* no-show) and the slot validator.                                        *)
(*                                                                         *)
(* Time is counted in minutes since midnight of day 0.  A request arrives  *)
(* (Receive...), then its handler runs to its response in one step: the    *)
(* handlers make every database call between two awaits, so on one event   *)
(* loop the checks and the commit of one request are not interleaved with  *)
(* another request.                                                        *)
(***************************************************************************)
EXTENDS Integers, Sequences, FiniteSets, TLC

VARIABLES appts, now, req, last, session

vars == <<appts, now, req, last, session>>

-----------------------------------------------------------------------------
(* Business rules: src/app.py lines 45-49 and the literals of the handlers *)

MIN_LEAD_TIME_HOURS == 2
MAX_RESCHEDULES == 2
RESCHEDULE_CUTOFF_HOURS == 1
SLOT_DURATION_MINUTES == 30
CLINIC_OPEN_HOUR == 9
CLINIC_CLOSE_HOUR == 18
MAX_DAILY_APPOINTMENTS == 8
CONSULTATION_FEE == 500
NO_SHOW_FEE == 250

MinutesPerHour == 60
HoursPerDay == 24
MinutesPerDay == HoursPerDay * MinutesPerHour

(* datetime.hour and datetime.date() of a time in minutes *)
HourOf(t) == (t % MinutesPerDay) \div MinutesPerHour
DateOf(t) == t \div MinutesPerDay

-----------------------------------------------------------------------------
(* Bounds of the model *)

MaxAppts == 2
MaxTicks == 2

NowStart == 8 * MinutesPerHour

Patients == {1, 2}
Doctors == {1, 2}
Departments == {"CARD", "NEURO"}

(* 10:00, 10:15, 10:30 of day 0 (clinic hours) and 18:00 (closed) *)
SlotStarts == {600, 615, 630, 1080}
Durations == {30, 45}

PatientReplies == {"exists", "absent", "error"}
DoctorReplies == Departments \cup {"notfound", "error"}

(* The billing and the notification service answer, or the call fails *)
ServiceReplies == {"ok", "error"}

AppointmentIds == 1 .. (MaxAppts + 1)

-----------------------------------------------------------------------------
(* Requests and responses *)

Idle == [op |-> "none"]

BookRequest(p, d, dept, s, e, idem, pv, dv) ==
    [op |-> "book", patient_id |-> p, doctor_id |-> d, department |-> dept,
     slot_start |-> s, slot_end |-> e, idempotency_key |-> idem,
     patient_reply |-> pv, doctor_reply |-> dv]

RescheduleRequest(id, s, e) ==
    [op |-> "reschedule", appointment_id |-> id,
     new_slot_start |-> s, new_slot_end |-> e]

IdRequest(op, id) == [op |-> op, appointment_id |-> id]

Workers == {1, 2}

(* An HTTP response: status code, the HTTPException detail (or "ok"), the  *)
(* appointment returned, and the collaborator calls the request made: the  *)
(* notification event and its refund_info, the amount of the bill, and the *)
(* calls that failed.                                                      *)
Response(op, code, detail, id, event, amount) ==
    [op |-> op, code |-> code, detail |-> detail, appointment_id |-> id,
     notified |-> event, billed |-> amount, refund_info |-> "none",
     failed |-> {}]

Rejected(op, code, detail, id) == Response(op, code, detail, id, "none", 0)

NoResponse == Response("none", 0, "none", 0, "none", 0)

(* A worker's reschedule request between its database statements: the      *)
(* request, and the Appointment object its session loaded (line 241).      *)
IdleSession(resp) == [pc |-> "idle", resp |-> resp]

BusySession(pc, r, a) == [pc |-> pc, request |-> r, loaded |-> a]

-----------------------------------------------------------------------------
(* The store *)

(* Mutant of Appointment: patient and doctor stored in each other's column *)
AppointmentSwapped(p, d, dept, s, e, t) ==
    [patient_id |-> d, doctor_id |-> p, department |-> dept,
     slot_start |-> s, slot_end |-> e, status |-> "SCHEDULED",
     reschedule_count |-> 0, created_at |-> t]

Appointment(p, d, dept, s, e, t) ==
    [patient_id |-> p, doctor_id |-> d, department |-> dept,
     slot_start |-> s, slot_end |-> e, status |-> "SCHEDULED",
     reschedule_count |-> 0, created_at |-> t]

Ids == 1 .. Len(appts)

(* Mutant of Overlaps: closed intervals, touching slots conflict *)
OverlapsClosed(a, s, e) == a.slot_start <= e /\ a.slot_end >= s

(* Appointment.slot_start < end AND Appointment.slot_end > start *)
Overlaps(a, s, e) == a.slot_start < e /\ a.slot_end > s

-----------------------------------------------------------------------------
(* validate_slot: the detail of the HTTPException it raises, or "ok".      *)
(* validate_slot_no_duration is its mutant without the duration check.     *)
(* datetime.now() is the argument t.                                       *)

validate_slot_no_duration(slot_start, slot_end, t) ==
    IF slot_start < t + MIN_LEAD_TIME_HOURS * MinutesPerHour
    THEN "lead_time"
    ELSE IF HourOf(slot_start) < CLINIC_OPEN_HOUR
            \/ HourOf(slot_start) >= CLINIC_CLOSE_HOUR
    THEN "clinic_hours"
    ELSE "ok"

(* Mutant of validate_slot: the lead time is compared with the slot's end *)
validate_slot_lead_from_end(slot_start, slot_end, t) ==
    IF slot_end < t + MIN_LEAD_TIME_HOURS * MinutesPerHour
    THEN "lead_time"
    ELSE IF HourOf(slot_start) < CLINIC_OPEN_HOUR
            \/ HourOf(slot_start) >= CLINIC_CLOSE_HOUR
    THEN "clinic_hours"
    ELSE IF slot_end - slot_start # SLOT_DURATION_MINUTES
    THEN "duration"
    ELSE "ok"

validate_slot(slot_start, slot_end, t) ==
    IF slot_start < t + MIN_LEAD_TIME_HOURS * MinutesPerHour
    THEN "lead_time"
    ELSE IF HourOf(slot_start) < CLINIC_OPEN_HOUR
            \/ HourOf(slot_start) >= CLINIC_CLOSE_HOUR
    THEN "clinic_hours"
    ELSE IF slot_end - slot_start # SLOT_DURATION_MINUTES
    THEN "duration"
    ELSE "ok"

(* Mutant of notify_service: the exception of the call leaves the function *)
notify_service_raising(reply) == IF reply = "ok" THEN "sent" ELSE "raised"

(* notify_service: the exception of a failed call is caught and logged *)
notify_service(reply) == IF reply = "ok" THEN "sent" ELSE "logged"

(* The POST /v1/bills of complete_appointment and mark_no_show, inside     *)
(* try/except; "none" where the handler makes no billing call              *)
create_bill(reply) ==
    IF reply = "none" THEN "none" ELSE IF reply = "ok" THEN "sent" ELSE "logged"

(* The response of a handler whose commit is done, after its billing and   *)
(* notification calls: an exception leaving a call would leave the handler *)
(* (HTTP 500).                                                             *)
AfterCommit(resp, billing, notification) ==
    [resp EXCEPT
        !.code = IF "raised" \in {billing, notification} THEN 500 ELSE @,
        !.failed = {c \in {"billing", "notification"} :
                       \/ c = "billing" /\ billing \in {"logged", "raised"}
                       \/ c = "notification"
                            /\ notification \in {"logged", "raised"}}]

(* refund_info of the APPOINTMENT_CANCELLED notification (line 346), from  *)
(* the minutes until slot_start                                            *)
refund_info(minutes_until_slot) ==
    IF minutes_until_slot > 2 * MinutesPerHour THEN "Full refund"
                                               ELSE "50% refund"

(* verify_patient: any exception of the call is swallowed into False *)
verify_patient(reply) == reply = "exists"

(* verify_doctor: "ok", or the error that leaves the handler.  No call     *)
(* raises httpx.HTTPStatusError (raise_for_status is never called), so a   *)
(* 404 reply is read as a body without a department; a transport error is  *)
(* not caught.                                                             *)
verify_doctor(reply, department) ==
    IF reply = "error" THEN "unhandled"
    ELSE IF department # ""
    THEN IF reply # department THEN "department_mismatch" ELSE "ok"
    ELSE "ok"

-----------------------------------------------------------------------------
(* book_appointment *)

IdempotentMatches(r) ==
    {i \in Ids : /\ appts[i].patient_id = r.patient_id
                 /\ appts[i].doctor_id = r.doctor_id
                 /\ appts[i].slot_start = r.slot_start
                 /\ appts[i].status = "SCHEDULED"}

DoctorOverlapOnBook(r) ==
    \E i \in Ids : /\ appts[i].doctor_id = r.doctor_id
                   /\ appts[i].status \in {"SCHEDULED", "COMPLETED"}
                   /\ Overlaps(appts[i], r.slot_start, r.slot_end)

PatientOverlapOnBook(r) ==
    \E i \in Ids : /\ appts[i].patient_id = r.patient_id
                   /\ appts[i].status = "SCHEDULED"
                   /\ Overlaps(appts[i], r.slot_start, r.slot_end)

DailyCount(d, s) ==
    Cardinality({i \in Ids : /\ appts[i].doctor_id = d
                             /\ DateOf(appts[i].slot_start) = DateOf(s)})

(* Mutant of BookChecks: the daily cap is reported as a conflict (409) *)
BookChecksCapConflict(r) ==
    IF ~verify_patient(r.patient_reply) THEN <<404, "patient_not_found">>
    ELSE IF verify_doctor(r.doctor_reply, r.department) = "unhandled"
    THEN <<500, "unhandled">>
    ELSE IF verify_doctor(r.doctor_reply, r.department) # "ok"
    THEN <<400, "department_mismatch">>
    ELSE IF validate_slot(r.slot_start, r.slot_end, now) # "ok"
    THEN <<400, validate_slot(r.slot_start, r.slot_end, now)>>
    ELSE IF DoctorOverlapOnBook(r) THEN <<409, "doctor_conflict">>
    ELSE IF PatientOverlapOnBook(r) THEN <<409, "patient_conflict">>
    ELSE IF DailyCount(r.doctor_id, r.slot_start) >= MAX_DAILY_APPOINTMENTS
    THEN <<409, "daily_cap">>
    ELSE <<201, "ok">>

(* The outcome of the checks of lines 148-195: "ok" or <<code, detail>> *)
BookChecks(r) ==
    IF ~verify_patient(r.patient_reply) THEN <<404, "patient_not_found">>
    ELSE IF verify_doctor(r.doctor_reply, r.department) = "unhandled"
    THEN <<500, "unhandled">>
    ELSE IF verify_doctor(r.doctor_reply, r.department) # "ok"
    THEN <<400, "department_mismatch">>
    ELSE IF validate_slot(r.slot_start, r.slot_end, now) # "ok"
    THEN <<400, validate_slot(r.slot_start, r.slot_end, now)>>
    ELSE IF DoctorOverlapOnBook(r) THEN <<409, "doctor_conflict">>
    ELSE IF PatientOverlapOnBook(r) THEN <<409, "patient_conflict">>
    ELSE IF DailyCount(r.doctor_id, r.slot_start) >= MAX_DAILY_APPOINTMENTS
    THEN <<400, "daily_cap">>
    ELSE <<201, "ok">>

(* Mutant of book_appointment: the patient is verified before the          *)
(* idempotency lookup                                                      *)
book_appointment_verify_first ==
    /\ req.op = "book"
    /\ IF ~verify_patient(req.patient_reply)
       THEN /\ last' = Rejected("book", 404, "patient_not_found", 0)
            /\ UNCHANGED appts
       ELSE IF req.idempotency_key /\ IdempotentMatches(req) # {}
       THEN /\ \E i \in IdempotentMatches(req) :
                   last' = Response("book", 201, "existing", i, "none", 0)
            /\ UNCHANGED appts
       ELSE IF BookChecks(req)[1] # 201
       THEN /\ last' = Rejected("book", BookChecks(req)[1], BookChecks(req)[2], 0)
            /\ UNCHANGED appts
       ELSE /\ appts' = Append(appts,
                           Appointment(req.patient_id, req.doctor_id,
                                       req.department, req.slot_start,
                                       req.slot_end, now))
            /\ \E nr \in ServiceReplies :
                 last' = AfterCommit(Response("book", 201, "ok", Len(appts) + 1,
                                              "APPOINTMENT_CONFIRMED", 0),
                                     create_bill("none"), notify_service(nr))
    /\ req' = Idle
    /\ UNCHANGED <<now, session>>

book_appointment ==
    /\ req.op = "book"
    /\ IF req.idempotency_key /\ IdempotentMatches(req) # {}
       THEN /\ \E i \in IdempotentMatches(req) :
                   last' = Response("book", 201, "existing", i, "none", 0)
            /\ UNCHANGED appts
       ELSE IF BookChecks(req)[1] # 201
       THEN /\ last' = Rejected("book", BookChecks(req)[1], BookChecks(req)[2], 0)
            /\ UNCHANGED appts
       ELSE /\ appts' = Append(appts,
                           Appointment(req.patient_id, req.doctor_id,
                                       req.department, req.slot_start,
                                       req.slot_end, now))
            /\ \E nr \in ServiceReplies :
                 last' = AfterCommit(Response("book", 201, "ok", Len(appts) + 1,
                                              "APPOINTMENT_CONFIRMED", 0),
                                     create_bill("none"), notify_service(nr))
    /\ req' = Idle
    /\ UNCHANGED <<now, session>>

-----------------------------------------------------------------------------
(* book_appointment served by several worker processes (or threads) on one *)
(* database: each statement (the idempotency lookup of line 130, the three *)
(* queries of lines 159, 172 and 186, the commit of line 208) is one step. *)
(* The verification calls and validate_slot touch no shared state and run  *)
(* with the lookup.                                                        *)

book_begin(w, r) ==
    /\ session[w] = IdleSession(NoResponse)
    /\ IF r.idempotency_key /\ IdempotentMatches(r) # {}
       THEN \E i \in IdempotentMatches(r) :
               session' = [session EXCEPT ![w] =
                   IdleSession(Response("book", 201, "existing", i, "none", 0))]
       ELSE IF ~verify_patient(r.patient_reply)
       THEN session' = [session EXCEPT ![w] =
                IdleSession(Rejected("book", 404, "patient_not_found", 0))]
       ELSE IF verify_doctor(r.doctor_reply, r.department) = "unhandled"
       THEN session' = [session EXCEPT ![w] =
                IdleSession(Rejected("book", 500, "unhandled", 0))]
       ELSE IF verify_doctor(r.doctor_reply, r.department) # "ok"
       THEN session' = [session EXCEPT ![w] =
                IdleSession(Rejected("book", 400, "department_mismatch", 0))]
       ELSE IF validate_slot(r.slot_start, r.slot_end, now) # "ok"
       THEN session' = [session EXCEPT ![w] =
                IdleSession(Rejected("book", 400,
                    validate_slot(r.slot_start, r.slot_end, now), 0))]
       ELSE session' = [session EXCEPT ![w] =
                BusySession("doctor_query", r, "none")]
    /\ UNCHANGED <<appts, now, req, last>>

book_doctor_query(w) ==
    /\ session[w].pc = "doctor_query"
    /\ IF DoctorOverlapOnBook(session[w].request)
       THEN session' = [session EXCEPT ![w] =
                IdleSession(Rejected("book", 409, "doctor_conflict", 0))]
       ELSE session' = [session EXCEPT ![w].pc = "patient_query"]
    /\ UNCHANGED <<appts, now, req, last>>

book_patient_query(w) ==
    /\ session[w].pc = "patient_query"
    /\ IF PatientOverlapOnBook(session[w].request)
       THEN session' = [session EXCEPT ![w] =
                IdleSession(Rejected("book", 409, "patient_conflict", 0))]
       ELSE session' = [session EXCEPT ![w].pc = "count_query"]
    /\ UNCHANGED <<appts, now, req, last>>

(* Mutant of book_count_query: the cap is compared with > instead of >= *)
book_count_query_off_by_one(w) ==
    /\ session[w].pc = "count_query"
    /\ IF DailyCount(session[w].request.doctor_id,
                     session[w].request.slot_start) > MAX_DAILY_APPOINTMENTS
       THEN session' = [session EXCEPT ![w] =
                IdleSession(Rejected("book", 400, "daily_cap", 0))]
       ELSE session' = [session EXCEPT ![w].pc = "insert"]
    /\ UNCHANGED <<appts, now, req, last>>

book_count_query(w) ==
    /\ session[w].pc = "count_query"
    /\ IF DailyCount(session[w].request.doctor_id,
                     session[w].request.slot_start) >= MAX_DAILY_APPOINTMENTS
       THEN session' = [session EXCEPT ![w] =
                IdleSession(Rejected("book", 400, "daily_cap", 0))]
       ELSE session' = [session EXCEPT ![w].pc = "insert"]
    /\ UNCHANGED <<appts, now, req, last>>

book_insert(w) ==
    /\ session[w].pc = "insert"
    /\ LET r == session[w].request
       IN /\ appts' = Append(appts,
                             Appointment(r.patient_id, r.doctor_id,
                                         r.department, r.slot_start,
                                         r.slot_end, now))
          /\ \E nr \in ServiceReplies :
               session' = [session EXCEPT ![w] =
                   IdleSession(AfterCommit(
                       Response("book", 201, "ok", Len(appts) + 1,
                                "APPOINTMENT_CONFIRMED", 0),
                       create_bill("none"), notify_service(nr)))]
    /\ UNCHANGED <<now, req, last>>

(* return of the worker's handler *)
book_respond(w) ==
    /\ session[w].pc = "idle" /\ session[w].resp.op = "book"
    /\ session' = [session EXCEPT ![w] = IdleSession(NoResponse)]
    /\ UNCHANGED <<appts, now, req, last>>

-----------------------------------------------------------------------------
(* book_appointment as coroutines of one event loop: a task runs alone     *)
(* from one await to the next.  Its awaits are verify_patient (line 149),  *)
(* verify_doctor (line 153) and notify_service (line 220); the queries and *)
(* the commit are synchronous calls and do not yield.  The replies of the  *)
(* patient and doctor services are the ones the request carries.           *)

(* lines 123-149: the idempotency lookup, then the call of verify_patient *)
book_lookup(t, r) ==
    /\ session[t] = IdleSession(NoResponse)
    /\ IF r.idempotency_key /\ IdempotentMatches(r) # {}
       THEN \E i \in IdempotentMatches(r) :
               session' = [session EXCEPT ![t] =
                   IdleSession(Response("book", 201, "existing", i, "none", 0))]
       ELSE session' = [session EXCEPT ![t] =
                BusySession("await_patient", r, 0)]
    /\ UNCHANGED <<appts, now, req, last>>

(* lines 149-153: verify_patient returns, then the call of verify_doctor *)
book_patient_verified(t) ==
    /\ session[t].pc = "await_patient"
    /\ IF ~verify_patient(session[t].request.patient_reply)
       THEN session' = [session EXCEPT ![t] =
                IdleSession(Rejected("book", 404, "patient_not_found", 0))]
       ELSE session' = [session EXCEPT ![t].pc = "await_doctor"]
    /\ UNCHANGED <<appts, now, req, last>>

(* lines 153-220: verify_doctor returns; validate_slot, the three queries, *)
(* the insert and its commit; then the call of notify_service.  The id of  *)
(* the new appointment is kept for the response.                           *)
book_check_and_commit(t) ==
    /\ session[t].pc = "await_doctor"
    /\ LET r == session[t].request
       IN IF BookChecks(r)[1] # 201
          THEN /\ session' = [session EXCEPT ![t] =
                      IdleSession(Rejected("book", BookChecks(r)[1],
                                           BookChecks(r)[2], 0))]
               /\ UNCHANGED appts
          ELSE /\ appts' = Append(appts,
                                  Appointment(r.patient_id, r.doctor_id,
                                              r.department, r.slot_start,
                                              r.slot_end, now))
               /\ session' = [session EXCEPT ![t] =
                      BusySession("await_notify", r, Len(appts) + 1)]
    /\ UNCHANGED <<now, req, last>>

(* lines 220-227: notify_service returns, the handler returns *)
book_notified(t) ==
    /\ session[t].pc = "await_notify"
    /\ \E nr \in ServiceReplies :
          session' = [session EXCEPT ![t] =
              IdleSession(AfterCommit(
                  Response("book", 201, "ok", session[t].loaded,
                           "APPOINTMENT_CONFIRMED", 0),
                  create_bill("none"), notify_service(nr)))]
    /\ UNCHANGED <<appts, now, req, last>>

(* Mutant of book_resume: the notification is awaited between the checks   *)
(* and the insert                                                          *)
book_resume_notify_before_commit(t) ==
    \/ book_patient_verified(t)
    \/ /\ session[t].pc = "await_doctor"
       /\ IF BookChecks(session[t].request)[1] # 201
          THEN session' = [session EXCEPT ![t] =
                   IdleSession(Rejected("book",
                                        BookChecks(session[t].request)[1],
                                        BookChecks(session[t].request)[2], 0))]
          ELSE session' = [session EXCEPT ![t].pc = "await_notify"]
       /\ UNCHANGED <<appts, now, req, last>>
    \/ /\ session[t].pc = "await_notify"
       /\ LET r == session[t].request
          IN /\ appts' = Append(appts,
                                Appointment(r.patient_id, r.doctor_id,
                                            r.department, r.slot_start,
                                            r.slot_end, now))
             /\ \E nr \in ServiceReplies :
                  session' = [session EXCEPT ![t] =
                      IdleSession(AfterCommit(
                          Response("book", 201, "ok", Len(appts) + 1,
                                   "APPOINTMENT_CONFIRMED", 0),
                          create_bill("none"), notify_service(nr)))]
       /\ UNCHANGED <<now, req, last>>

(* the event loop resumes task t at the await it is suspended on *)
book_resume(t) ==
    \/ book_patient_verified(t)
    \/ book_check_and_commit(t)
    \/ book_notified(t)

-----------------------------------------------------------------------------
(* reschedule_appointment *)

(* Mutant of DoctorOverlapOnReschedule: the appointment itself is not     *)
(* excluded from the query                                                 *)
DoctorOverlapOnRescheduleWithSelf(d, id, s, e) ==
    \E i \in Ids : /\ appts[i].doctor_id = d
                   /\ appts[i].status \in {"SCHEDULED"}
                   /\ Overlaps(appts[i], s, e)

DoctorOverlapOnReschedule(d, id, s, e) ==
    \E i \in Ids : /\ appts[i].doctor_id = d
                   /\ i # id
                   /\ appts[i].status \in {"SCHEDULED"}
                   /\ Overlaps(appts[i], s, e)

(* Mutant of RescheduleLoadedChecks: no limit on the reschedules *)
RescheduleLoadedChecksNoMax(a, r, t) ==
    IF a.status # "SCHEDULED" THEN <<400, "not_scheduled">>
    ELSE IF a.slot_start - t <= RESCHEDULE_CUTOFF_HOURS * MinutesPerHour
    THEN <<400, "reschedule_cutoff">>
    ELSE IF validate_slot(r.new_slot_start, r.new_slot_end, t) # "ok"
    THEN <<400, validate_slot(r.new_slot_start, r.new_slot_end, t)>>
    ELSE <<200, "ok">>

(* Lines 246-262, on the appointment object a the session loaded *)
RescheduleLoadedChecks(a, r, t) ==
    IF a.status # "SCHEDULED" THEN <<400, "not_scheduled">>
    ELSE IF a.reschedule_count >= MAX_RESCHEDULES
    THEN <<400, "max_reschedules">>
    ELSE IF a.slot_start - t <= RESCHEDULE_CUTOFF_HOURS * MinutesPerHour
    THEN <<400, "reschedule_cutoff">>
    ELSE IF validate_slot(r.new_slot_start, r.new_slot_end, t) # "ok"
    THEN <<400, validate_slot(r.new_slot_start, r.new_slot_end, t)>>
    ELSE <<200, "ok">>

RescheduleChecks(r) ==
    LET id == r.appointment_id IN
    IF id \notin Ids THEN <<404, "appointment_not_found">>
    ELSE IF RescheduleLoadedChecks(appts[id], r, now)[1] # 200
    THEN RescheduleLoadedChecks(appts[id], r, now)
    ELSE IF DoctorOverlapOnReschedule(appts[id].doctor_id, id,
                                      r.new_slot_start, r.new_slot_end)
    THEN <<409, "doctor_conflict">>
    ELSE <<200, "ok">>

(* Mutant of reschedule_appointment: an appointment in any status is      *)
(* rescheduled, and is SCHEDULED again afterwards                          *)
reschedule_appointment_reopens ==
    /\ req.op = "reschedule"
    /\ IF RescheduleChecks(req)[2] \notin {"ok", "not_scheduled"}
       THEN /\ last' = Rejected("reschedule", RescheduleChecks(req)[1],
                                RescheduleChecks(req)[2], req.appointment_id)
            /\ UNCHANGED appts
       ELSE /\ appts' = [appts EXCEPT
                           ![req.appointment_id].slot_start = req.new_slot_start,
                           ![req.appointment_id].slot_end = req.new_slot_end,
                           ![req.appointment_id].reschedule_count = @ + 1,
                           ![req.appointment_id].status = "SCHEDULED"]
            /\ \E nr \in ServiceReplies :
                 last' = AfterCommit(Response("reschedule", 200, "ok",
                                              req.appointment_id,
                                              "APPOINTMENT_RESCHEDULED", 0),
                                     create_bill("none"), notify_service(nr))
    /\ req' = Idle
    /\ UNCHANGED <<now, session>>

reschedule_appointment ==
    /\ req.op = "reschedule"
    /\ IF RescheduleChecks(req)[1] # 200
       THEN /\ last' = Rejected("reschedule", RescheduleChecks(req)[1],
                                RescheduleChecks(req)[2], req.appointment_id)
            /\ UNCHANGED appts
       ELSE /\ appts' = [appts EXCEPT
                           ![req.appointment_id].slot_start = req.new_slot_start,
                           ![req.appointment_id].slot_end = req.new_slot_end,
                           ![req.appointment_id].reschedule_count = @ + 1]
            /\ \E nr \in ServiceReplies :
                 last' = AfterCommit(Response("reschedule", 200, "ok",
                                              req.appointment_id,
                                              "APPOINTMENT_RESCHEDULED", 0),
                                     create_bill("none"), notify_service(nr))
    /\ req' = Idle
    /\ UNCHANGED <<now, session>>

-----------------------------------------------------------------------------
(* reschedule_appointment served by several worker processes on one        *)
(* database: each statement (the load of line 241, the conflict query of   *)
(* line 265, the commit of line 283) is one step, and the checks between   *)
(* them read the object the session loaded.                                *)

reschedule_load(w, r) ==
    /\ session[w] = IdleSession(NoResponse)
    /\ IF r.appointment_id \notin Ids
       THEN session' = [session EXCEPT ![w] =
                IdleSession(Rejected("reschedule", 404, "appointment_not_found",
                                     r.appointment_id))]
       ELSE IF RescheduleLoadedChecks(appts[r.appointment_id], r, now)[1] # 200
       THEN session' = [session EXCEPT ![w] =
                IdleSession(Rejected("reschedule",
                    RescheduleLoadedChecks(appts[r.appointment_id], r, now)[1],
                    RescheduleLoadedChecks(appts[r.appointment_id], r, now)[2],
                    r.appointment_id))]
       ELSE session' = [session EXCEPT ![w] =
                BusySession("query", r, appts[r.appointment_id])]
    /\ UNCHANGED <<appts, now, req, last>>

reschedule_conflict_query(w) ==
    /\ session[w].pc = "query"
    /\ LET r == session[w].request
           a == session[w].loaded
       IN IF DoctorOverlapOnReschedule(a.doctor_id, r.appointment_id,
                                       r.new_slot_start, r.new_slot_end)
          THEN session' = [session EXCEPT ![w] =
                   IdleSession(Rejected("reschedule", 409, "doctor_conflict",
                                        r.appointment_id))]
          ELSE session' = [session EXCEPT ![w] = BusySession("commit", r, a)]
    /\ UNCHANGED <<appts, now, req, last>>

reschedule_commit(w) ==
    /\ session[w].pc = "commit"
    /\ LET r == session[w].request
           a == session[w].loaded
       IN /\ appts' = [appts EXCEPT
                          ![r.appointment_id].slot_start = r.new_slot_start,
                          ![r.appointment_id].slot_end = r.new_slot_end,
                          ![r.appointment_id].reschedule_count =
                              a.reschedule_count + 1]
          /\ \E nr \in ServiceReplies :
               session' = [session EXCEPT ![w] =
                   IdleSession(AfterCommit(
                       Response("reschedule", 200, "ok", r.appointment_id,
                                "APPOINTMENT_RESCHEDULED", 0),
                       create_bill("none"), notify_service(nr)))]
    /\ UNCHANGED <<now, req, last>>

(* return of the worker's handler *)
reschedule_respond(w) ==
    /\ session[w].pc = "idle" /\ session[w].resp # NoResponse
    /\ session' = [session EXCEPT ![w] = IdleSession(NoResponse)]
    /\ UNCHANGED <<appts, now, req, last>>

-----------------------------------------------------------------------------
(* cancel_appointment, complete_appointment, mark_no_show *)

(* Mutant of cancel_appointment: the status is committed before the check *)
cancel_appointment_commit_first ==
    /\ req.op = "cancel"
    /\ LET id == req.appointment_id IN
       IF id \notin Ids
       THEN /\ last' = Rejected("cancel", 404, "appointment_not_found", id)
            /\ UNCHANGED appts
       ELSE IF appts[id].status # "SCHEDULED"
       THEN /\ last' = Rejected("cancel", 400, "not_scheduled", id)
            /\ appts' = [appts EXCEPT ![id].status = "CANCELLED"]
       ELSE /\ appts' = [appts EXCEPT ![id].status = "CANCELLED"]
            /\ \E nr \in ServiceReplies :
                 last' = AfterCommit(
                     [Response("cancel", 200, "ok", id,
                               "APPOINTMENT_CANCELLED", 0)
                        EXCEPT !.refund_info =
                                   refund_info(appts[id].slot_start - now)],
                     create_bill("none"), notify_service(nr))
    /\ req' = Idle
    /\ UNCHANGED <<now, session>>

cancel_appointment ==
    /\ req.op = "cancel"
    /\ LET id == req.appointment_id IN
       IF id \notin Ids
       THEN /\ last' = Rejected("cancel", 404, "appointment_not_found", id)
            /\ UNCHANGED appts
       ELSE IF appts[id].status # "SCHEDULED"
       THEN /\ last' = Rejected("cancel", 400, "not_scheduled", id)
            /\ UNCHANGED appts
       ELSE /\ appts' = [appts EXCEPT ![id].status = "CANCELLED"]
            /\ \E nr \in ServiceReplies :
                 last' = AfterCommit(
                     [Response("cancel", 200, "ok", id,
                               "APPOINTMENT_CANCELLED", 0)
                        EXCEPT !.refund_info =
                                   refund_info(appts[id].slot_start - now)],
                     create_bill("none"), notify_service(nr))
    /\ req' = Idle
    /\ UNCHANGED <<now, session>>

(* Mutant of complete_appointment: no check of the current status *)
complete_appointment_unguarded ==
    /\ req.op = "complete"
    /\ LET id == req.appointment_id IN
       IF id \notin Ids
       THEN /\ last' = Rejected("complete", 404, "appointment_not_found", id)
            /\ UNCHANGED appts
       ELSE /\ appts' = [appts EXCEPT ![id].status = "COMPLETED"]
            /\ \E br \in ServiceReplies, nr \in ServiceReplies :
                 last' = AfterCommit(Response("complete", 200, "ok", id,
                                              "APPOINTMENT_COMPLETED",
                                              CONSULTATION_FEE),
                                     create_bill(br), notify_service(nr))
    /\ req' = Idle
    /\ UNCHANGED <<now, session>>

complete_appointment ==
    /\ req.op = "complete"
    /\ LET id == req.appointment_id IN
       IF id \notin Ids
       THEN /\ last' = Rejected("complete", 404, "appointment_not_found", id)
            /\ UNCHANGED appts
       ELSE IF appts[id].status # "SCHEDULED"
       THEN /\ last' = Rejected("complete", 400, "not_scheduled", id)
            /\ UNCHANGED appts
       ELSE /\ appts' = [appts EXCEPT ![id].status = "COMPLETED"]
            /\ \E br \in ServiceReplies, nr \in ServiceReplies :
                 last' = AfterCommit(Response("complete", 200, "ok", id,
                                              "APPOINTMENT_COMPLETED",
                                              CONSULTATION_FEE),
                                     create_bill(br), notify_service(nr))
    /\ req' = Idle
    /\ UNCHANGED <<now, session>>

(* Mutant of mark_no_show: only a SCHEDULED appointment is marked *)
mark_no_show_guarded ==
    /\ req.op = "noshow"
    /\ LET id == req.appointment_id IN
       IF id \notin Ids
       THEN /\ last' = Rejected("noshow", 404, "appointment_not_found", id)
            /\ UNCHANGED appts
       ELSE IF appts[id].status # "SCHEDULED"
       THEN /\ last' = Rejected("noshow", 400, "not_scheduled", id)
            /\ UNCHANGED appts
       ELSE /\ appts' = [appts EXCEPT ![id].status = "NO_SHOW"]
            /\ \E br \in ServiceReplies, nr \in ServiceReplies :
                 last' = AfterCommit(Response("noshow", 200, "ok", id,
                                              "NO_SHOW", NO_SHOW_FEE),
                                     create_bill(br), notify_service(nr))
    /\ req' = Idle
    /\ UNCHANGED <<now, session>>

mark_no_show ==
    /\ req.op = "noshow"
    /\ LET id == req.appointment_id IN
       IF id \notin Ids
       THEN /\ last' = Rejected("noshow", 404, "appointment_not_found", id)
            /\ UNCHANGED appts
       ELSE /\ appts' = [appts EXCEPT ![id].status = "NO_SHOW"]
            /\ \E br \in ServiceReplies, nr \in ServiceReplies :
                 last' = AfterCommit(Response("noshow", 200, "ok", id,
                                              "NO_SHOW", NO_SHOW_FEE),
                                     create_bill(br), notify_service(nr))
    /\ req' = Idle
    /\ UNCHANGED <<now, session>>

-----------------------------------------------------------------------------
(* The environment: a request arrives, its handler runs, its response is   *)
(* returned to the client (Respond); the clock advances between requests.  *)

(* Bookings whose verification passes, for every patient, doctor and slot, *)
(* and one patient, doctor and slot with every reply of the collaborators  *)
(* and with and without a department.                                      *)
BookRequests ==
    {BookRequest(p, d, "CARD", s, s + dur, idem, "exists", "CARD") :
        p \in Patients, d \in Doctors, s \in SlotStarts, dur \in Durations,
        idem \in BOOLEAN}
    \cup
    {BookRequest(1, 1, dept, 600, 600 + dur, idem, pv, dv) :
        dept \in {"CARD", ""}, dur \in Durations, idem \in BOOLEAN,
        pv \in PatientReplies, dv \in DoctorReplies}

ReceiveBook(requests, limit) ==
    /\ req = Idle /\ last = NoResponse
    /\ Len(appts) < limit
    /\ \E r \in requests : req' = r
    /\ UNCHANGED <<appts, now, last, session>>

ReceiveReschedule(ids, starts, durations) ==
    /\ req = Idle /\ last = NoResponse
    /\ \E id \in ids, s \in starts, dur \in durations :
          req' = RescheduleRequest(id, s, s + dur)
    /\ UNCHANGED <<appts, now, last, session>>

ReceiveStatusChange(ops, ids) ==
    /\ req = Idle /\ last = NoResponse
    /\ \E op \in ops, id \in ids : req' = IdRequest(op, id)
    /\ UNCHANGED <<appts, now, last, session>>

(* return of the handler: the response leaves the service *)
Respond ==
    /\ req = Idle /\ last # NoResponse
    /\ last' = NoResponse
    /\ UNCHANGED <<appts, now, req, session>>

Tick ==
    /\ req = Idle /\ last = NoResponse
    /\ now + MinutesPerHour <= NowStart + MaxTicks * MinutesPerHour
    /\ now' = now + MinutesPerHour
    /\ UNCHANGED <<appts, req, last, session>>

Init ==
    /\ appts = <<>>
    /\ now = NowStart
    /\ req = Idle
    /\ last = NoResponse
    /\ session = [w \in Workers |-> IdleSession(NoResponse)]

Next ==
    \/ ReceiveBook(BookRequests, MaxAppts)
    \/ ReceiveReschedule(AppointmentIds, SlotStarts, Durations)
    \/ ReceiveStatusChange({"cancel", "complete", "noshow"}, AppointmentIds)
    \/ Tick
    \/ book_appointment
    \/ reschedule_appointment
    \/ cancel_appointment
    \/ complete_appointment
    \/ mark_no_show
    \/ Respond

Spec == Init /\ [][Next]_vars

-----------------------------------------------------------------------------
(* Bookings, cancellations and completions, no reschedule: the store grows *)
(* by book_appointment alone and its records keep their slots.             *)

NextBooking ==
    \/ ReceiveBook(BookRequests, MaxAppts)
    \/ ReceiveStatusChange({"cancel", "complete"}, AppointmentIds)
    \/ Tick
    \/ book_appointment
    \/ cancel_appointment
    \/ complete_appointment
    \/ Respond

SpecBooking == Init /\ [][NextBooking]_vars

-----------------------------------------------------------------------------
(* One patient with one doctor through the whole life cycle, on two        *)
(* adjacent slots; requests also ask for 18:00, when the clinic is closed. *)

LifecycleSlots == {600, 630}

LifecycleRequestSlots == LifecycleSlots \cup {1080}

LifecycleBookRequests ==
    {r \in BookRequests : /\ r.patient_id = 1 /\ r.doctor_id = 1
                            /\ r.slot_start \in LifecycleRequestSlots
                            /\ r.department = "CARD"
                            /\ ~r.idempotency_key}

NextLifecycle ==
    \/ ReceiveBook(LifecycleBookRequests, MaxAppts)
    \/ ReceiveReschedule(AppointmentIds, LifecycleRequestSlots, Durations)
    \/ ReceiveStatusChange({"cancel", "complete", "noshow"}, AppointmentIds)
    \/ Tick
    \/ book_appointment
    \/ reschedule_appointment
    \/ cancel_appointment
    \/ complete_appointment
    \/ mark_no_show
    \/ Respond

SpecLifecycle == Init /\ [][NextLifecycle]_vars

-----------------------------------------------------------------------------
(* Reschedule requests served by two workers, statement by statement, on   *)
(* appointments of one doctor.                                             *)

WorkerBookRequests ==
    {BookRequest(1, 1, "CARD", s, s + SLOT_DURATION_MINUTES, FALSE,
                 "exists", "CARD") : s \in {600, 630}}

WorkerRescheduleRequests ==
    {RescheduleRequest(id, s, s + SLOT_DURATION_MINUTES) :
        id \in AppointmentIds, s \in {600, 660}}

NextWorkers ==
    \/ ReceiveBook(WorkerBookRequests, MaxAppts)
    \/ book_appointment
    \/ Tick
    \/ \E w \in Workers, r \in WorkerRescheduleRequests : reschedule_load(w, r)
    \/ \E w \in Workers : reschedule_conflict_query(w)
    \/ \E w \in Workers : reschedule_commit(w)
    \/ \E w \in Workers : reschedule_respond(w)
    \/ Respond

SpecWorkers == Init /\ [][NextWorkers]_vars

-----------------------------------------------------------------------------
(* One doctor's day filling up: the k-th booking asks for the k-th slot of *)
(* day 0 from 10:00, or for 10:00 of day 1; the appointment of day 1 is    *)
(* moved to the next slot of day 0, the first appointment is rescheduled   *)
(* to the slot it has; the clock advances once the last booking is made.   *)

CapLimit == 10

CapDaySlot(k) == 10 * MinutesPerHour + k * SLOT_DURATION_MINUTES
CapNextDaySlot == MinutesPerDay + 10 * MinutesPerHour

CapSlots == {CapDaySlot(Len(appts)), CapNextDaySlot}

CapNextDayIds == {i \in Ids : appts[i].slot_start = CapNextDaySlot}

CapFirstSlot == {appts[i].slot_start : i \in Ids \cap {1}}

CapBookRequests ==
    {BookRequest(1, 1, "CARD", s, s + SLOT_DURATION_MINUTES, FALSE,
                 "exists", "CARD") : s \in CapSlots}

NextCap ==
    \/ ReceiveBook(CapBookRequests, CapLimit)
    \/ ReceiveReschedule(CapNextDayIds, {CapDaySlot(Len(appts))},
                         {SLOT_DURATION_MINUTES})
    \/ ReceiveReschedule({1}, CapFirstSlot, {SLOT_DURATION_MINUTES})
    \/ ReceiveStatusChange({"cancel", "complete", "noshow"}, {1})
    \/ (Len(appts) >= CapLimit /\ Tick)
    \/ book_appointment
    \/ reschedule_appointment
    \/ cancel_appointment
    \/ complete_appointment
    \/ mark_no_show
    \/ Respond

SpecCap == Init /\ [][NextCap]_vars

-----------------------------------------------------------------------------
(* Booking requests served by two workers, statement by statement, while   *)
(* one doctor's day fills up: a booking asks for the slot of day 0 after   *)
(* the slots of the appointments stored when it arrives; the bookings that *)
(* arrive at the empty store are for either doctor.                        *)

CapWorkerLimit == 8

CapWorkerBookRequests ==
    {BookRequest(1, d, "CARD", CapDaySlot(Len(appts)),
                 CapDaySlot(Len(appts)) + SLOT_DURATION_MINUTES, FALSE,
                 "exists", "CARD") :
        d \in IF Len(appts) = 0 THEN Doctors ELSE {1}}

NextBookWorkers ==
    \/ \E w \in Workers, r \in CapWorkerBookRequests :
          Len(appts) < CapWorkerLimit /\ book_begin(w, r)
    \/ \E w \in Workers : book_doctor_query(w)
    \/ \E w \in Workers : book_patient_query(w)
    \/ \E w \in Workers : book_count_query(w)
    \/ \E w \in Workers : book_insert(w)
    \/ \E w \in Workers : book_respond(w)

SpecBookWorkers == Init /\ [][NextBookWorkers]_vars

-----------------------------------------------------------------------------
(* Two booking tasks of one event loop: either patient books either doctor *)
(* on three slots of which the middle one overlaps the other two, and     *)
(* for patient 1 and doctor 1 also with an Idempotency-Key; patient 1 may  *)
(* be unknown to the patient service.                                      *)

LoopSlots == {600, 615, 630}

LoopBookRequests ==
    {BookRequest(p, d, "CARD", s, s + SLOT_DURATION_MINUTES, FALSE,
                 "exists", "CARD") :
        p \in Patients, d \in Doctors, s \in LoopSlots}
    \cup
    {BookRequest(1, 1, "CARD", s, s + SLOT_DURATION_MINUTES, TRUE,
                 "exists", "CARD") : s \in LoopSlots}
    \cup
    {BookRequest(1, 1, "CARD", 600, 600 + SLOT_DURATION_MINUTES, FALSE,
                 "absent", "CARD")}

NextLoop ==
    \/ \E t \in Workers, r \in LoopBookRequests :
          Len(appts) < MaxAppts /\ book_lookup(t, r)
    \/ \E t \in Workers : book_resume(t)
    \/ \E t \in Workers : book_respond(t)
    \/ Tick

SpecLoop == Init /\ [][NextLoop]_vars

-----------------------------------------------------------------------------
(* Appointments of patient 1 with either doctor in a department and of    *)
(* patient 2 with doctor 2 without one, all for the slot of 10:00 and     *)
(* rescheduled to 10:30, through every operation, within the hour the      *)
(* service starts in.                                                      *)

StatusBookRequests ==
    {BookRequest(1, d, "CARD", 600, 600 + SLOT_DURATION_MINUTES, FALSE,
                 "exists", "CARD") : d \in Doctors}
    \cup
    {BookRequest(2, 2, "", 600, 600 + SLOT_DURATION_MINUTES, FALSE,
                 "exists", "CARD")}

NextStatus ==
    \/ ReceiveBook(StatusBookRequests, MaxAppts)
    \/ ReceiveReschedule(AppointmentIds, {630}, {SLOT_DURATION_MINUTES})
    \/ ReceiveStatusChange({"cancel", "complete", "noshow"}, AppointmentIds)
    \/ book_appointment
    \/ reschedule_appointment
    \/ cancel_appointment
    \/ complete_appointment
    \/ mark_no_show
    \/ Respond

SpecStatus == Init /\ [][NextStatus]_vars

-----------------------------------------------------------------------------
(* Properties *)

Terminal == {"COMPLETED", "CANCELLED", "NO_SHOW"}

IntervalsOverlap(a, b) == a.slot_start < b.slot_end /\ b.slot_start < a.slot_end

(* C1: for every doctor, no two stored appointments whose status is        *)
(* SCHEDULED or COMPLETED have overlapping intervals [slot_start, slot_end) *)
C1_DoctorSlotsDisjoint ==
    \A i \in Ids, j \in Ids :
        (/\ i # j
         /\ appts[i].doctor_id = appts[j].doctor_id
         /\ appts[i].status \in {"SCHEDULED", "COMPLETED"}
         /\ appts[j].status \in {"SCHEDULED", "COMPLETED"})
        => ~IntervalsOverlap(appts[i], appts[j])

(* C2: for every patient, no two stored SCHEDULED appointments have        *)
(* overlapping intervals [slot_start, slot_end)                            *)
C2_PatientSlotsDisjoint ==
    \A i \in Ids, j \in Ids :
        (/\ i # j
         /\ appts[i].patient_id = appts[j].patient_id
         /\ appts[i].status = "SCHEDULED"
         /\ appts[j].status = "SCHEDULED")
        => ~IntervalsOverlap(appts[i], appts[j])

(* C3: every doctor has at most 8 stored appointments, of any status,      *)
(* whose slot_start falls on the same calendar day                         *)
C3_DailyCap ==
    \A i \in Ids :
        Cardinality({j \in Ids :
                        /\ appts[j].doctor_id = appts[i].doctor_id
                        /\ DateOf(appts[j].slot_start) = DateOf(appts[i].slot_start)})
            <= 8

(* C4: steps of a worker's reschedule request, for the C4 formulas *)
C4_CountsInRange ==
    \A i \in Ids : appts[i].reschedule_count \in 0 .. 2

C4_NewSlotValid(r) ==
    /\ r.new_slot_start >= now + 120
    /\ HourOf(r.new_slot_start) \in 9 .. 17
    /\ r.new_slot_end - r.new_slot_start = 30

C4_NoConflict(w) ==
    ~\E i \in Ids :
        /\ i # session[w].request.appointment_id
        /\ appts[i].doctor_id = appts[session[w].request.appointment_id].doctor_id
        /\ appts[i].status = "SCHEDULED"
        /\ appts[i].slot_start < session[w].request.new_slot_end
        /\ session[w].request.new_slot_start < appts[i].slot_end

(* a request on an appointment whose count is already 2 is rejected and    *)
(* changes nothing                                                         *)
C4_RejectedAtTwo(w, r) ==
    (r.appointment_id \in Ids
       /\ appts[r.appointment_id].reschedule_count >= 2
       /\ reschedule_load(w, r))
    => /\ session'[w].pc = "idle"
       /\ session'[w].resp.code = 400
       /\ appts' = appts

(* the conflict query lets a conflict-free request through, and the commit *)
(* writes the new slot, adds one to the count and answers 200              *)
C4_QueryAndCommit(w) ==
    /\ (reschedule_conflict_query(w) /\ C4_NoConflict(w))
          => (session'[w].pc = "commit" /\ appts' = appts)
    /\ reschedule_commit(w)
          => /\ session'[w].resp.code = 200
             /\ appts'[session[w].request.appointment_id].slot_start =
                    session[w].request.new_slot_start
             /\ appts'[session[w].request.appointment_id].slot_end =
                    session[w].request.new_slot_end
             /\ appts'[session[w].request.appointment_id].reschedule_count =
                    session[w].loaded.reschedule_count + 1

(* C4 as stated: every reschedule_count stays in 0..2, also with two       *)
(* workers rescheduling the same appointment; a reschedule requested at    *)
(* count 2 is rejected and changes nothing; a reschedule of a SCHEDULED    *)
(* appointment with count below 2 and a valid, conflict-free new slot      *)
(* succeeds                                                                *)
C4_RescheduleCountAsStated ==
    [][/\ C4_CountsInRange'
       /\ \A w \in Workers :
            /\ \A r \in WorkerRescheduleRequests :
                 /\ C4_RejectedAtTwo(w, r)
                 /\ (r.appointment_id \in Ids
                       /\ appts[r.appointment_id].status = "SCHEDULED"
                       /\ appts[r.appointment_id].reschedule_count < 2
                       /\ C4_NewSlotValid(r)
                       /\ reschedule_load(w, r))
                    => session'[w].pc = "query"
            /\ C4_QueryAndCommit(w)]_vars

(* C4 amended: the same, where the reschedule that succeeds is one whose   *)
(* current slot_start is more than 1 hour after now                        *)
C4_RescheduleCount ==
    [][/\ C4_CountsInRange'
       /\ \A w \in Workers :
            /\ \A r \in WorkerRescheduleRequests :
                 /\ C4_RejectedAtTwo(w, r)
                 /\ (r.appointment_id \in Ids
                       /\ appts[r.appointment_id].status = "SCHEDULED"
                       /\ appts[r.appointment_id].reschedule_count < 2
                       /\ appts[r.appointment_id].slot_start - now > 60
                       /\ C4_NewSlotValid(r)
                       /\ reschedule_load(w, r))
                    => session'[w].pc = "query"
            /\ C4_QueryAndCommit(w)]_vars

(* both workers have rescheduled appointment 1 from the same loaded count, *)
(* and a later request on it was rejected at count 2                       *)
C4_Witness ==
    /\ Len(appts) >= 1
    /\ appts[1].reschedule_count = 2
    /\ session[1].pc = "idle" /\ session[1].resp.detail = "max_reschedules"
    /\ session[2].pc = "commit"
    /\ session[2].request.appointment_id = 1
    /\ session[2].loaded.reschedule_count = 1

(* C5: COMPLETED, CANCELLED and NO_SHOW are terminal: once an appointment  *)
(* has one of them, no step changes its status                             *)
C5_TerminalStatusKept ==
    [][\A i \in Ids :
          appts[i].status \in Terminal => appts'[i].status = appts[i].status]_vars

(* C6: every booking that creates a record creates exactly one, with a     *)
(* fresh appointment_id, status SCHEDULED, reschedule_count 0 and the      *)
(* requested patient, doctor, department and slot, and changes no existing *)
(* appointment                                                             *)
C6_BookingCreatesOneScheduled ==
    [][(req.op = "book" /\ (appts' # appts \/ last'.detail = "ok")) =>
          /\ Len(appts') = Len(appts) + 1
          /\ last'.code = 201
          /\ last'.appointment_id = Len(appts) + 1
          /\ last'.appointment_id \notin Ids
          /\ appts'[Len(appts) + 1].status = "SCHEDULED"
          /\ appts'[Len(appts) + 1].reschedule_count = 0
          /\ appts'[Len(appts) + 1].patient_id = req.patient_id
          /\ appts'[Len(appts) + 1].doctor_id = req.doctor_id
          /\ appts'[Len(appts) + 1].department = req.department
          /\ appts'[Len(appts) + 1].slot_start = req.slot_start
          /\ appts'[Len(appts) + 1].slot_end = req.slot_end
          /\ \A i \in Ids : appts'[i] = appts[i]]_vars

C6_Witness ==
    /\ last.op = "book" /\ last.detail = "ok" /\ last.appointment_id = 2
    /\ Len(appts) = 2
    /\ appts[2].patient_id # appts[2].doctor_id

(* C7 as stated: a booking whose slot_end - slot_start is not 30 minutes   *)
(* always fails with HTTP 400 and creates nothing                          *)
C7_BadDurationAlways400 ==
    [][(req.op = "book" /\ req.slot_end - req.slot_start # 30) =>
          (last'.code = 400 /\ appts' = appts)]_vars

(* C7 amended: a booking whose slot_end - slot_start is not 30 minutes     *)
(* never creates a record; it fails with HTTP 400 unless it is answered    *)
(* before the slot is validated: an idempotency key matching a SCHEDULED   *)
(* appointment returns that appointment, a failed patient verification     *)
(* gives 404, a transport error of the doctor call is unhandled (500)      *)
C7_BadDurationNeverBooked ==
    [][(req.op = "book" /\ req.slot_end - req.slot_start # 30) =>
          /\ appts' = appts
          /\ IF /\ req.idempotency_key
                /\ \E i \in Ids : /\ appts[i].patient_id = req.patient_id
                                  /\ appts[i].doctor_id = req.doctor_id
                                  /\ appts[i].slot_start = req.slot_start
                                  /\ appts[i].status = "SCHEDULED"
             THEN /\ last'.code = 201
                  /\ last'.appointment_id \in Ids
                  /\ appts[last'.appointment_id].status = "SCHEDULED"
                  /\ appts[last'.appointment_id].slot_start = req.slot_start
             ELSE IF req.patient_reply # "exists" THEN last'.code = 404
             ELSE IF req.doctor_reply = "error" THEN last'.code = 500
             ELSE last'.code = 400]_vars

C7_Witness == last.op = "book" /\ last.code = 400 /\ last.detail = "duration"

(* C8: cancelling or completing an appointment that is not SCHEDULED fails *)
(* with HTTP 400 and changes nothing; cancelling a SCHEDULED one sets its  *)
(* status to CANCELLED and completing one sets it to COMPLETED, at any     *)
(* time before or at the slot                                              *)
C8_CancelCompleteOnlyScheduled ==
    [][(req.op \in {"cancel", "complete"} /\ req.appointment_id \in Ids) =>
          IF appts[req.appointment_id].status # "SCHEDULED"
          THEN last'.code = 400 /\ appts' = appts
          ELSE /\ last'.code = 200
               /\ appts' = [appts EXCEPT ![req.appointment_id].status =
                               IF req.op = "cancel" THEN "CANCELLED"
                                                    ELSE "COMPLETED"]]_vars

C8_Witness ==
    /\ last.op = "complete" /\ last.code = 400
    /\ last.appointment_id \in Ids
    /\ appts[last.appointment_id].status = "CANCELLED"
    /\ now >= appts[last.appointment_id].slot_start

(* C9: a booking that passes the verification and the slot validation is   *)
(* rejected with the doctor's 409 conflict if and only if a stored         *)
(* SCHEDULED or COMPLETED appointment [s, e) of the doctor has s < e' and  *)
(* s' < e; a booking that only touches a stored slot, or overlaps only     *)
(* CANCELLED or NO_SHOW appointments, is accepted                          *)
C9_RequestPassesValidation ==
    /\ req.op = "book"
    /\ ~(req.idempotency_key /\ IdempotentMatches(req) # {})
    /\ req.patient_reply = "exists"
    /\ req.doctor_reply # "error"
    /\ (req.department # "" => req.doctor_reply = req.department)
    /\ req.slot_start >= now + 120
    /\ HourOf(req.slot_start) \in 9 .. 17
    /\ req.slot_end - req.slot_start = 30

C9_DoctorBusy ==
    \E i \in Ids : /\ appts[i].doctor_id = req.doctor_id
                   /\ appts[i].status \in {"SCHEDULED", "COMPLETED"}
                   /\ appts[i].slot_start < req.slot_end
                   /\ req.slot_start < appts[i].slot_end

C9_PatientBusy ==
    \E i \in Ids : /\ appts[i].patient_id = req.patient_id
                   /\ appts[i].status = "SCHEDULED"
                   /\ appts[i].slot_start < req.slot_end
                   /\ req.slot_start < appts[i].slot_end

C9_DayFull ==
    Cardinality({i \in Ids :
                    /\ appts[i].doctor_id = req.doctor_id
                    /\ DateOf(appts[i].slot_start) = DateOf(req.slot_start)}) >= 8

C10_RejectionChangesNothing ==
    [][(req.op # "none" /\ last'.code \in {404, 400, 409}) =>
          /\ appts' = appts
          /\ last'.notified = "none"
          /\ last'.billed = 0]_vars

C10_Witness ==
    /\ last.op = "cancel" /\ last.code = 400
    /\ last.appointment_id \in Ids
    /\ appts[last.appointment_id].status = "COMPLETED"

(* C11: the pre-states of the three rejections *)
C11_CapReached ==
    /\ C9_RequestPassesValidation
    /\ ~C9_DoctorBusy /\ ~C9_PatientBusy
    /\ C9_DayFull

C11_AtMaxReschedules ==
    /\ req.op = "reschedule" /\ req.appointment_id \in Ids
    /\ appts[req.appointment_id].status = "SCHEDULED"
    /\ appts[req.appointment_id].reschedule_count >= 2

C11_WithinCutoff ==
    /\ req.op = "reschedule" /\ req.appointment_id \in Ids
    /\ appts[req.appointment_id].status = "SCHEDULED"
    /\ appts[req.appointment_id].reschedule_count < 2
    /\ appts[req.appointment_id].slot_start - now <= 60

C12_Committed ==
    CASE req.op = "book" ->
            /\ Len(appts') = Len(appts) + 1
            /\ appts'[Len(appts) + 1].status = "SCHEDULED"
            /\ appts'[Len(appts) + 1].slot_start = req.slot_start
      [] req.op = "reschedule" ->
            /\ appts'[req.appointment_id].slot_start = req.new_slot_start
            /\ appts'[req.appointment_id].slot_end = req.new_slot_end
            /\ appts'[req.appointment_id].reschedule_count =
                   appts[req.appointment_id].reschedule_count + 1
      [] req.op = "cancel" -> appts'[req.appointment_id].status = "CANCELLED"
      [] req.op = "complete" -> appts'[req.appointment_id].status = "COMPLETED"
      [] req.op = "noshow" -> appts'[req.appointment_id].status = "NO_SHOW"

(* C12: a request makes its notification and billing calls only together   *)
(* with its committed state change, and when the notification or the       *)
(* billing call fails the request still answers 200/201 and the committed  *)
(* change is in the store; complete and no-show send their bill and every  *)
(* successful operation its notification whether or not the other call     *)
(* failed                                                                  *)
C12_LateCallsNeverFail ==
    [][req.op # "none" =>
          /\ (last'.notified # "none" \/ last'.billed # 0) => C12_Committed
          /\ last'.failed # {} =>
                /\ last'.code \in {200, 201}
                /\ last'.notified # "none"
                /\ C12_Committed
          /\ (last'.code \in {200, 201} /\ last'.detail = "ok") =>
                /\ last'.notified # "none"
                /\ (req.op \in {"complete", "noshow"} <=> last'.billed # 0)
                /\ C12_Committed]_vars

(* an appointment was completed although both the billing and the          *)
(* notification call failed                                                *)
C12_Witness ==
    /\ last.op = "complete" /\ last.code = 200
    /\ last.failed = {"billing", "notification"}
    /\ last.appointment_id \in Ids
    /\ appts[last.appointment_id].status = "COMPLETED"

(* C13: the SCHEDULED appointments with the key of the booking request *)
C13_Existing ==
    {i \in Ids : /\ appts[i].patient_id = req.patient_id
                 /\ appts[i].doctor_id = req.doctor_id
                 /\ appts[i].slot_start = req.slot_start
                 /\ appts[i].status = "SCHEDULED"}

(* C13: a booking request with an idempotency token, for which a SCHEDULED *)
(* appointment with the same patient_id, doctor_id and slot_start exists,  *)
(* answers 201 with that appointment whatever the patient and the doctor   *)
(* service would reply and whatever the slot_end, changes nothing in the   *)
(* store and sends no notification; a booking with a token that creates a  *)
(* record found no such appointment and leaves exactly one SCHEDULED       *)
(* appointment with its key                                                *)
C13_IdempotentBooking ==
    [][(req.op = "book" /\ req.idempotency_key) =>
          /\ C13_Existing # {} =>
                /\ last'.code = 201
                /\ last'.appointment_id \in C13_Existing
                /\ appts' = appts
                /\ last'.notified = "none" /\ last'.billed = 0
                /\ last'.failed = {}
          /\ appts' # appts =>
                /\ C13_Existing = {}
                /\ Cardinality({i \in 1 .. Len(appts') :
                                   /\ appts'[i].patient_id = req.patient_id
                                   /\ appts'[i].doctor_id = req.doctor_id
                                   /\ appts'[i].slot_start = req.slot_start
                                   /\ appts'[i].status = "SCHEDULED"}) = 1]_vars

(* a repeated booking was answered with the appointment the first one      *)
(* created, the only one in the store                                      *)
C13_Witness ==
    /\ last.op = "book" /\ last.code = 201 /\ last.detail = "existing"
    /\ Len(appts) = 1 /\ last.appointment_id = 1
    /\ appts[1].status = "SCHEDULED"

(* C14: a booking creates an appointment only if the patient service        *)
(* confirmed the patient and the doctor service returned the doctor, with   *)
(* the requested department when one is given; a booking (not answered     *)
(* from the idempotency lookup) whose patient or doctor does not exist, or  *)
(* whose verification call fails, is rejected and stores nothing           *)
C14_VerifiedBeforeCreate ==
    [][req.op = "book" =>
          /\ appts' # appts =>
                /\ req.patient_reply = "exists"
                /\ req.doctor_reply \in Departments
                /\ req.department # "" => req.doctor_reply = req.department
          /\ (/\ ~(req.idempotency_key /\ C13_Existing # {})
              /\ \/ req.patient_reply # "exists"
                 \/ req.doctor_reply \in {"notfound", "error"}) =>
                /\ appts' = appts
                /\ last'.code \in {404, 400, 500}]_vars

(* C15: on a successful cancel the refund tier reported is full refund     *)
(* when slot_start is more than 2 hours away, the 50% tier when it is more *)
(* than 0 and at most 2 hours away, and a tier distinct from both (the     *)
(* no-show fee) when slot_start is now or has passed                       *)
C15_RefundTiers ==
    [][(/\ req.op = "cancel" /\ req.appointment_id \in Ids
        /\ appts[req.appointment_id].status = "SCHEDULED") =>
          /\ last'.code = 200
          /\ IF appts[req.appointment_id].slot_start - now > 120
             THEN last'.refund_info = "Full refund"
             ELSE IF appts[req.appointment_id].slot_start - now > 0
             THEN last'.refund_info = "50% refund"
             ELSE last'.refund_info \notin {"Full refund", "50% refund"}]_vars

(* C16: the conditions under which a reschedule request succeeds *)
C16_MayReschedule ==
    /\ req.appointment_id \in Ids
    /\ appts[req.appointment_id].status = "SCHEDULED"
    /\ appts[req.appointment_id].reschedule_count < 2
    /\ appts[req.appointment_id].slot_start - now > 60
    /\ req.new_slot_start >= now + 120
    /\ HourOf(req.new_slot_start) \in 9 .. 17
    /\ req.new_slot_end - req.new_slot_start = 30
    /\ ~\E i \in Ids :
          /\ i # req.appointment_id
          /\ appts[i].doctor_id = appts[req.appointment_id].doctor_id
          /\ appts[i].status = "SCHEDULED"
          /\ appts[i].slot_start < req.new_slot_end
          /\ req.new_slot_start < appts[i].slot_end

(* C16: a reschedule succeeds exactly when the target is SCHEDULED, its     *)
(* reschedule_count is below 2, its current slot_start is more than 1 hour *)
(* after now, the new slot is valid and no other SCHEDULED appointment of  *)
(* the same doctor overlaps the new slot; it then sets slot_start and      *)
(* slot_end to the new slot, adds 1 to reschedule_count and changes no     *)
(* other field and no other appointment; otherwise the store is unchanged  *)
C16_RescheduleFrame ==
    [][req.op = "reschedule" =>
          IF C16_MayReschedule
          THEN /\ last'.code = 200
               /\ appts' = [appts EXCEPT ![req.appointment_id] =
                     [patient_id |-> @.patient_id, doctor_id |-> @.doctor_id,
                      department |-> @.department,
                      slot_start |-> req.new_slot_start,
                      slot_end |-> req.new_slot_end,
                      status |-> "SCHEDULED",
                      reschedule_count |-> @.reschedule_count + 1,
                      created_at |-> @.created_at]]
          ELSE last'.code # 200 /\ appts' = appts]_vars

(* appointment 2 was moved onto the slot of the cancelled appointment 1 of *)
(* the same doctor                                                         *)
C16_Witness ==
    /\ last.op = "reschedule" /\ last.code = 200 /\ last.appointment_id = 2
    /\ Len(appts) = 2
    /\ appts[1].status = "CANCELLED"
    /\ appts[2].slot_start = appts[1].slot_start
    /\ appts[2].reschedule_count = 1

(* C17: a no-show request on an existing appointment, whatever its status, *)
(* answers 200, sets the status to NO_SHOW, changes nothing else and sends *)
(* a bill of the no-show fee; on an appointment that does not exist it     *)
(* answers 404 and changes nothing                                         *)
C17_NoShowAnyStatus ==
    [][req.op = "noshow" =>
          IF req.appointment_id \in Ids
          THEN /\ last'.code = 200
               /\ appts' = [appts EXCEPT ![req.appointment_id].status = "NO_SHOW"]
               /\ last'.billed = 250
          ELSE /\ last'.code = 404
               /\ appts' = appts
               /\ last'.billed = 0]_vars

(* a no-show request was served on appointment 1, and a second one on the *)
(* same appointment, now NO_SHOW, has arrived                              *)
C17_Witness ==
    /\ req.op = "noshow" /\ req.appointment_id = 1
    /\ Len(appts) >= 1
    /\ appts[1].status = "NO_SHOW"

(* C18: what a query of worker w's booking finds in the store as it is now *)
C18_DoctorBusy(w) ==
    \E i \in Ids : /\ appts[i].doctor_id = session[w].request.doctor_id
                   /\ appts[i].status \in {"SCHEDULED", "COMPLETED"}
                   /\ appts[i].slot_start < session[w].request.slot_end
                   /\ session[w].request.slot_start < appts[i].slot_end

C18_PatientBusy(w) ==
    \E i \in Ids : /\ appts[i].patient_id = session[w].request.patient_id
                   /\ appts[i].status = "SCHEDULED"
                   /\ appts[i].slot_start < session[w].request.slot_end
                   /\ session[w].request.slot_start < appts[i].slot_end

C18_DayCount(w) ==
    Cardinality({i \in Ids :
                    /\ appts[i].doctor_id = session[w].request.doctor_id
                    /\ DateOf(appts[i].slot_start) =
                          DateOf(session[w].request.slot_start)})

(* C18: with the statements of two bookings interleaved, each of the three *)
(* queries decides on the store as it is when the query runs and changes   *)
(* nothing, and the insert, with no further check, appends the SCHEDULED   *)
(* appointment of its request whatever the store holds by then             *)
C18_CheckThenAct ==
    [][\A w \in Workers :
          /\ (session[w].pc = "doctor_query" /\ session'[w] # session[w]) =>
                /\ appts' = appts
                /\ IF C18_DoctorBusy(w)
                   THEN session'[w].pc = "idle" /\ session'[w].resp.code = 409
                   ELSE session'[w].pc = "patient_query"
          /\ (session[w].pc = "patient_query" /\ session'[w] # session[w]) =>
                /\ appts' = appts
                /\ IF C18_PatientBusy(w)
                   THEN session'[w].pc = "idle" /\ session'[w].resp.code = 409
                   ELSE session'[w].pc = "count_query"
          /\ (session[w].pc = "count_query" /\ session'[w] # session[w]) =>
                /\ appts' = appts
                /\ IF C18_DayCount(w) >= 8
                   THEN session'[w].pc = "idle" /\ session'[w].resp.code = 400
                   ELSE session'[w].pc = "insert"
          /\ (session[w].pc = "insert" /\ session'[w] # session[w]) =>
                /\ Len(appts') = Len(appts) + 1
                /\ \A i \in Ids : appts'[i] = appts[i]
                /\ appts'[Len(appts) + 1].status = "SCHEDULED"
                /\ appts'[Len(appts) + 1].doctor_id = session[w].request.doctor_id
                /\ appts'[Len(appts) + 1].patient_id = session[w].request.patient_id
                /\ appts'[Len(appts) + 1].slot_start = session[w].request.slot_start
                /\ appts'[Len(appts) + 1].slot_end = session[w].request.slot_end
                /\ session'[w].pc = "idle" /\ session'[w].resp.code = 201]_vars

(* two SCHEDULED appointments of doctor 1 overlap, and they are the eighth *)
(* and the ninth appointment of the doctor on the day                      *)
C18_Witness ==
    /\ \E i \in Ids, j \in Ids :
          /\ i # j
          /\ appts[i].doctor_id = 1 /\ appts[j].doctor_id = 1
          /\ appts[i].status = "SCHEDULED" /\ appts[j].status = "SCHEDULED"
          /\ IntervalsOverlap(appts[i], appts[j])
    /\ Cardinality({i \in Ids : /\ appts[i].doctor_id = 1
                                /\ DateOf(appts[i].slot_start) = 0}) = 9

(* C19: the three conditions of a valid slot at time now *)
C19_Valid(slot_start, slot_end) ==
    /\ slot_start >= now + 120
    /\ HourOf(slot_start) >= 9 /\ HourOf(slot_start) < 18
    /\ slot_end - slot_start = 30

(* C19: a booking that stores an appointment and a reschedule that succeeds *)
(* have, at the time of the request, a slot with slot_start >= now + 2     *)
(* hours, an hour of day of slot_start in [9, 18) and slot_end -           *)
(* slot_start = 30 minutes; every stored appointment has slot_end =        *)
(* slot_start + 30 minutes and a slot_start hour in [9, 18)                *)
C19_AcceptedSlotsValid ==
    [][/\ (req.op = "book" /\ appts' # appts) =>
             C19_Valid(req.slot_start, req.slot_end)
       /\ (req.op = "reschedule" /\ last'.code = 200) =>
             C19_Valid(req.new_slot_start, req.new_slot_end)
       /\ \A i \in 1 .. Len(appts') :
             /\ appts'[i].slot_end = appts'[i].slot_start + 30
             /\ HourOf(appts'[i].slot_start) \in 9 .. 17]_vars

(* a reschedule to a slot that starts exactly 2 hours from now succeeded *)
C19_Witness ==
    /\ last.op = "reschedule" /\ last.code = 200
    /\ last.appointment_id \in Ids
    /\ appts[last.appointment_id].slot_start = now + 120
    /\ appts[last.appointment_id].reschedule_count = 2

(* C20: the stored SCHEDULED appointments of one doctor are pairwise       *)
(* disjoint in the store s                                                 *)
C20_DoctorDisjoint(s) ==
    \A i, j \in 1 .. Len(s) :
        (/\ i < j
         /\ s[i].doctor_id = s[j].doctor_id
         /\ s[i].status = "SCHEDULED" /\ s[j].status = "SCHEDULED")
        => ~(s[i].slot_start < s[j].slot_end /\ s[j].slot_start < s[i].slot_end)

(* C20: with booking tasks interleaved only at their awaits, the store     *)
(* changes only in the step of a task resumed from the doctor verification *)
(* whose doctor-overlap, patient-overlap and daily-cap checks pass on the  *)
(* store of that same step, and that step appends the task's appointment   *)
(* and suspends the task on the notification; the idempotency lookup and   *)
(* the two verification resumptions change nothing; so no two overlapping  *)
(* SCHEDULED appointments of one doctor are ever stored                    *)
C20_ChecksAndInsertOneStep ==
    [][/\ appts' # appts =>
             \E t \in Workers :
                 /\ session[t].pc = "await_doctor"
                 /\ ~DoctorOverlapOnBook(session[t].request)
                 /\ ~PatientOverlapOnBook(session[t].request)
                 /\ DailyCount(session[t].request.doctor_id,
                               session[t].request.slot_start) < 8
                 /\ Len(appts') = Len(appts) + 1
                 /\ SubSeq(appts', 1, Len(appts)) = appts
                 /\ appts'[Len(appts')].doctor_id = session[t].request.doctor_id
                 /\ appts'[Len(appts')].slot_start = session[t].request.slot_start
                 /\ appts'[Len(appts')].slot_end = session[t].request.slot_end
                 /\ appts'[Len(appts')].status = "SCHEDULED"
                 /\ session'[t].pc = "await_notify"
       /\ \A t \in Workers :
             (session[t].pc \in {"idle", "await_patient", "await_notify"}
              /\ session'[t] # session[t]) => appts' = appts
       /\ C20_DoctorDisjoint(appts')]_vars

(* two tasks hold the same request with an Idempotency-Key: both missed    *)
(* the lookup, the first has committed and awaits the notification, the    *)
(* second is still suspended on the doctor verification                    *)
C20_Witness ==
    /\ session[1].pc = "await_notify"
    /\ session[2].pc = "await_doctor"
    /\ session[2].request = session[1].request
    /\ session[1].request.idempotency_key
    /\ Len(appts) = 1
    /\ appts[1].status = "SCHEDULED"
    /\ appts[1].doctor_id = session[2].request.doctor_id
    /\ appts[1].slot_start = session[2].request.slot_start

(* C21: a step removes no stored appointment and leaves each one at its    *)
(* appointment_id (its position in the store) with its patient_id,         *)
(* doctor_id and department; an appointment whose status is COMPLETED,     *)
(* CANCELLED or NO_SHOW is not SCHEDULED after the step; an appointment    *)
(* the step creates is SCHEDULED                                           *)
C21_ScheduledOnlyInitial ==
    [][/\ Len(appts') >= Len(appts)
       /\ \A i \in Ids :
             /\ appts'[i].patient_id = appts[i].patient_id
             /\ appts'[i].doctor_id = appts[i].doctor_id
             /\ appts'[i].department = appts[i].department
             /\ appts[i].status \in {"COMPLETED", "CANCELLED", "NO_SHOW"}
                   => appts'[i].status # "SCHEDULED"
       /\ \A i \in (1 .. Len(appts')) \ Ids :
             appts'[i].status = "SCHEDULED"]_vars

(* a reschedule of a cancelled appointment was refused, with a second      *)
(* appointment of another patient, doctor and department stored after it,  *)
(* itself marked NO_SHOW                                                   *)
C21_Witness ==
    /\ last.op = "reschedule" /\ last.detail = "not_scheduled"
    /\ last.appointment_id = 1
    /\ Len(appts) = 2
    /\ appts[1].status = "CANCELLED"
    /\ appts[2].status = "NO_SHOW"
    /\ appts[1].patient_id # appts[2].patient_id
    /\ appts[1].doctor_id # appts[2].doctor_id
    /\ appts[1].department # appts[2].department

=============================================================================
